---- MODULE Spec2Model ----
(***************************************************************************)
(* Nearest-grocery-store finder: nearest_store.py (text report) and        *)
(* make_map.py (HTML map).  One run of either program is a sequential      *)
(* state machine: read the API key, fetch the places, select the nearest   *)
(* one by straight-line distance, query the routing provider, report.      *)
(*                                                                         *)
(* Numbers.  Python floats are modelled in fixed point:                    *)
(*   - coordinates and angles are whole degrees (the fixed origin          *)
(*     (40.4406, -79.9959) is the grid point (40, -80));                   *)
(*   - math.sin / math.cos of math.radians(x) are a sine table in          *)
(*     thousandths, so sines and cosines have scale Scale = 1000;          *)
(*   - the haversine value h has scale Scale * Scale;                      *)
(*   - a distance is in tenths of a mile.                                  *)
(* Every multiplication truncates, as every float multiplication rounds.   *)
(* On the points used here h stays within 0 .. Scale * Scale, as it does   *)
(* in floating point, so math.sqrt is never given a negative number.       *)
(***************************************************************************)
EXTENDS Integers, Sequences, FiniteSets, TLC

\* Longest place list the places-lookup collaborator returns in the model.
MaxPlaces == 3

(***************************************************************************)
(* Python values                                                           *)
(***************************************************************************)
\* None where a number is expected (loc.get("lat") of an absent key).
NoneNum == -999
\* None where a string is expected (Optional[str]).
None == "None"
\* The empty dict {} used as the default of dict.get.
EmptyDict == [k \in {} |-> 0]
\* dict.get(k, default)
Get(d, k, default) == IF k \in DOMAIN d THEN d[k] ELSE default
\* d[k] = v on a dict: the key is added or overwritten.
SetItem(d, k, v) == [x \in DOMAIN d \cup {k} |-> IF x = k THEN v ELSE d[x]]
\* Truthiness of an Optional[str].
Truthy(s) == s # None /\ s # ""

(***************************************************************************)
(* Configuration constants                                                 *)
(***************************************************************************)
ORIGIN == <<40, -80>>
SEARCH_RADIUS_METERS == 5000
PLACE_TYPE == "grocery_or_supermarket"
TRAVEL_MODE == "driving"
OUTPUT_HTML == "pgh_nearest_grocery_map.html"

(***************************************************************************)
(* Fixed-point arithmetic                                                  *)
(***************************************************************************)
Scale == 1000
\* pi in ten-thousandths, for degrees -> milliradians
Pi10k == 31416

\* round(1000 * sin(t degrees)) for t = 0..90
SinTab ==
  << 0,
     17, 35, 52, 70, 87, 105, 122, 139, 156, 174,
     191, 208, 225, 242, 259, 276, 292, 309, 326, 342,
     358, 375, 391, 407, 423, 438, 454, 469, 485, 500,
     515, 530, 545, 559, 574, 588, 602, 616, 629, 643,
     656, 669, 682, 695, 707, 719, 731, 743, 755, 766,
     777, 788, 799, 809, 819, 829, 839, 848, 857, 866,
     875, 883, 891, 899, 906, 914, 921, 927, 934, 940,
     946, 951, 956, 961, 966, 970, 974, 978, 982, 985,
     988, 990, 993, 995, 996, 998, 999, 999, 1000, 1000 >>

Abs(x) == IF x < 0 THEN -x ELSE x

\* math.sin(math.radians(x)), x in -180..180 degrees
Sin(x) ==
  LET ax == Abs(x)
      m  == IF ax <= 90 THEN SinTab[ax + 1] ELSE SinTab[180 - ax + 1]
  IN  IF x < 0 THEN -m ELSE m

\* math.cos(math.radians(x)), x in -180..180 degrees
Cos(x) ==
  LET ax == Abs(x)
  IN  IF ax <= 90 THEN SinTab[90 - ax + 1] ELSE -SinTab[ax - 90 + 1]

\* math.sqrt on a value of scale Scale*Scale, result of scale Scale
RECURSIVE SqrtSearch(_, _, _)
SqrtSearch(n, lo, hi) ==
  IF lo = hi THEN lo
  ELSE LET mid == (lo + hi + 1) \div 2
       IN  IF mid * mid <= n THEN SqrtSearch(n, mid, hi)
           ELSE SqrtSearch(n, lo, mid - 1)
Sqrt(n) == SqrtSearch(n, 0, Scale)

\* math.atan2(y, x) for y, x >= 0, in whole degrees (0..90): the largest
\* angle t whose tangent does not exceed y / x.
RECURSIVE AtanSearch(_, _, _, _)
AtanSearch(y, x, lo, hi) ==
  IF lo = hi THEN lo
  ELSE LET mid == (lo + hi + 1) \div 2
       IN  IF Sin(mid) * x <= Cos(mid) * y THEN AtanSearch(y, x, mid, hi)
           ELSE AtanSearch(y, x, lo, mid - 1)
Atan2(y, x) == AtanSearch(y, x, 0, 90)

\* An angle of t degrees in milliradians.
MilliRad(t) == (t * Pi10k) \div 1800

\* haversine_miles with the cosine of the first latitude taken twice.
haversine_miles_OneCosine(a, b) ==
  LET lat1 == a[1]
      lon1 == a[2]
      lat2 == b[1]
      lon2 == b[2]
      r    == 39588
      phi1 == lat1
      dphi == lat2 - lat1
      dlambda == lon2 - lon1
      h == (Sin(dphi \div 2) * Sin(dphi \div 2))
           + (((Cos(phi1) * Cos(phi1)) \div Scale)
              * (Sin(dlambda \div 2) * Sin(dlambda \div 2))) \div Scale
  IN  (2 * r * MilliRad(Atan2(Sqrt(h), Sqrt(Scale * Scale - h)))) \div 1000

(***************************************************************************)
(* haversine_miles: straight-line distance between two points, in tenths   *)
(* of a mile                                                               *)
(***************************************************************************)
haversine_miles(a, b) ==
  LET lat1 == a[1]
      lon1 == a[2]
      lat2 == b[1]
      lon2 == b[2]
      r    == 39588  \* 3958.7613 miles, in tenths of a mile
      phi1 == lat1
      phi2 == lat2
      dphi == lat2 - lat1
      dlambda == lon2 - lon1
      h == (Sin(dphi \div 2) * Sin(dphi \div 2))
           + (((Cos(phi1) * Cos(phi2)) \div Scale)
              * (Sin(dlambda \div 2) * Sin(dlambda \div 2))) \div Scale
  IN  (2 * r * MilliRad(Atan2(Sqrt(h), Sqrt(Scale * Scale - h)))) \div 1000

(***************************************************************************)
(* Place records returned by the places-lookup collaborator                *)
(***************************************************************************)
\* A record with geometry.location.lat and .lng, name and vicinity.
Place(lat, lng) ==
  [name |-> "Giant Eagle", vicinity |-> "Main St",
   geometry |-> [location |-> [lat |-> lat, lng |-> lng]]]

\* Coordinates the provider returns: the origin itself, two points at the
\* same distance from it, and points with a latitude or longitude of 0.
Coords == {<<40, -80>>, <<50, -80>>, <<30, -80>>, <<0, -80>>, <<40, 0>>}

PlaceRecords ==
  {Place(c[1], c[2]) : c \in Coords}
  \cup {[geometry |-> [location |-> [lat |-> 50, lng |-> -80]]],           \* no name, no vicinity
        [name |-> "Aldi", vicinity |-> "Oak St"],                           \* no geometry
        [name |-> "Aldi", vicinity |-> "Oak St", geometry |-> EmptyDict],   \* no location
        [name |-> "Aldi", geometry |-> [location |-> [lng |-> -80]]],       \* no lat
        [name |-> "Aldi", geometry |-> [location |-> [lat |-> 40, lng |-> NoneNum]]]}

PlaceLists == UNION {[1..n -> PlaceRecords] : n \in 0..MaxPlaces}

(***************************************************************************)
(* nearest_store.py: to_candidates and min                                 *)
(***************************************************************************)
PlaceCandidate(name, address, lat, lng, straight_line_miles) ==
  [name |-> name, address |-> address, lat |-> lat, lng |-> lng,
   straight_line_miles |-> straight_line_miles]

\* `not lat or not lng`: a coordinate of 0 counts as missing.
MissingCoord_Falsy(lat, lng) ==
  lat = NoneNum \/ lat = 0 \/ lng = NoneNum \/ lng = 0

\* `lat is None or lng is None`
MissingCoord(lat, lng) == lat = NoneNum \/ lng = NoneNum

\* The for loop of to_candidates from record i on; candidates is the list
\* built so far.  The provider's coordinates are numbers, so float(lat) and
\* float(lng) are the values read.
RECURSIVE to_candidates_loop(_, _, _, _)
to_candidates_loop(origin, places, i, candidates) ==
  IF i > Len(places) THEN candidates
  ELSE LET p   == places[i]
           loc == Get(Get(p, "geometry", EmptyDict), "location", EmptyDict)
           lat == Get(loc, "lat", NoneNum)
           lng == Get(loc, "lng", NoneNum)
       IN  IF MissingCoord(lat, lng)
           THEN to_candidates_loop(origin, places, i + 1, candidates)
           ELSE to_candidates_loop(origin, places, i + 1,
                  Append(candidates,
                         PlaceCandidate(Get(p, "name", "Unknown"),
                                        Get(p, "vicinity", "Unknown address"),
                                        lat, lng,
                                        haversine_miles(origin, <<lat, lng>>))))

to_candidates(origin, places) == to_candidates_loop(origin, places, 1, <<>>)

\* max() instead of min(): a later item replaces the held one when greater.
MinReplaces_Greater(k, held) == k > held

\* A later item replaces the held one also on an equal key.
MinReplaces_OrEqual(k, held) == k <= held

\* The comparison min() makes between the key of the next item and the key
\* of the item it holds.
MinReplaces(k, held) == k < held

\* min(candidates, key=lambda c: c.straight_line_miles) on a non-empty list:
\* the index of the item min returns.  min holds the first item and replaces
\* it by a later one only when that one's key is less.
RECURSIVE min_loop(_, _, _)
min_loop(candidates, i, held) ==
  IF i > Len(candidates) THEN held
  ELSE IF MinReplaces(candidates[i].straight_line_miles,
                      candidates[held].straight_line_miles)
       THEN min_loop(candidates, i + 1, i)
       ELSE min_loop(candidates, i + 1, held)

MinIndex(candidates) == min_loop(candidates, 2, 1)

(***************************************************************************)
(* make_map.py: pick_nearest_place                                         *)
(***************************************************************************)
\* float("inf")
Inf == 999999999

\* `d <= best_dist`
Closer_OrEqual(d, best_dist) == d <= best_dist

\* `d < best_dist`
Closer(d, best_dist) == d < best_dist

\* The for loop of pick_nearest_place from record i on; best is the index
\* of the record held (0 for None).
RECURSIVE pick_loop(_, _, _, _)
pick_loop(places, i, best, best_dist) ==
  IF i > Len(places) THEN [best |-> best, best_dist |-> best_dist]
  ELSE LET p   == places[i]
           loc == Get(Get(p, "geometry", EmptyDict), "location", EmptyDict)
           lat == Get(loc, "lat", NoneNum)
           lng == Get(loc, "lng", NoneNum)
       IN  IF MissingCoord(lat, lng)
           THEN pick_loop(places, i + 1, best, best_dist)
           ELSE LET d == haversine_miles(ORIGIN, <<lat, lng>>)
                IN  IF Closer(d, best_dist)
                    THEN pick_loop(places, i + 1, i, d)
                    ELSE pick_loop(places, i + 1, best, best_dist)

\* The key is written into every dict of the list.
Annotate_All(places, best, best_dist) ==
  [i \in 1..Len(places) |-> SetItem(places[i], "_straight_line_miles", best_dist)]

\* best["_straight_line_miles"] = best_dist: best is one of the dicts of
\* the list, so the list sees the new key.
Annotate(places, best, best_dist) ==
  [places EXCEPT ![best] = SetItem(places[best], "_straight_line_miles", best_dist)]

\* pick_nearest_place with best_dist starting at 0 instead of infinity.
pick_nearest_place_ZeroStart(places) ==
  LET r == pick_loop(places, 1, 0, 0)
  IN  IF r.best = 0
      THEN [raised |-> TRUE, best |-> 0, places |-> places]
      ELSE [raised |-> FALSE, best |-> r.best,
            places |-> Annotate(places, r.best, r.best_dist)]

\* pick_nearest_place(places): raised, or the index of the returned dict and
\* the list as the call leaves it.
pick_nearest_place(places) ==
  LET r == pick_loop(places, 1, 0, Inf)
  IN  IF r.best = 0
      THEN [raised |-> TRUE, best |-> 0, places |-> places]
      ELSE [raised |-> FALSE, best |-> r.best,
            places |-> Annotate(places, r.best, r.best_dist)]

(***************************************************************************)
(* driving_metrics (both programs) and get_api_key (both programs)         *)
(***************************************************************************)
Element(status) == [status |-> status]
OkElement ==
  [status |-> "OK", distance |-> [text |-> "1.2 mi"], duration |-> [text |-> "5 mins"]]

\* Responses of the routing collaborator for one origin and one destination.
DmResponses ==
  {EmptyDict,                                           \* no rows
   [rows |-> <<EmptyDict>>],                            \* a row without elements
   [rows |-> <<[elements |-> <<EmptyDict>>]>>],         \* an element without status
   [rows |-> <<[elements |-> <<Element("ZERO_RESULTS")>>]>>],
   [rows |-> <<[elements |-> <<Element("NOT_FOUND")>>]>>],
   [rows |-> <<[elements |-> <<OkElement>>]>>],
   [rows |-> <<[elements |-> <<[status |-> "OK", distance |-> [text |-> "1.2 mi"]]>>]>>]}

\* driving_metrics without the status check.
driving_metrics_NoStatusCheck(dm) ==
  LET element == Get(Get(dm, "rows", <<EmptyDict>>)[1], "elements", <<EmptyDict>>)[1]
  IN  IF "distance" \in DOMAIN element /\ "duration" \in DOMAIN element
      THEN [raised |-> FALSE,
            value |-> <<element["distance"]["text"], element["duration"]["text"]>>]
      ELSE [raised |-> TRUE, value |-> <<None, None>>]

\* driving_metrics on the response dm: the pair returned, or a KeyError.
driving_metrics(dm) ==
  LET element == Get(Get(dm, "rows", <<EmptyDict>>)[1], "elements", <<EmptyDict>>)[1]
  IN  IF Get(element, "status", None) # "OK"
      THEN [raised |-> FALSE, value |-> <<None, None>>]
      ELSE IF "distance" \in DOMAIN element /\ "duration" \in DOMAIN element
           THEN [raised |-> FALSE,
                 value |-> <<element["distance"]["text"], element["duration"]["text"]>>]
           ELSE [raised |-> TRUE, value |-> <<None, None>>]

\* os.getenv("GOOGLE_MAPS_API_KEY"): unset, empty, or a key.
Keys == {None, "", "AIza-key"}

\* `if key is None: raise`
KeyMissing_NoneOnly(key) == key = None

\* `if not key: raise`
KeyMissing(key) == key = None \/ key = ""

\* get_api_key() when the environment holds key.
get_api_key(key) ==
  IF KeyMissing(key)
  THEN [raised |-> TRUE, value |-> None]
  ELSE [raised |-> FALSE, value |-> key]

\* The requests sent to the two providers.
PlacesCall(origin, radius_meters, place_type) ==
  [api |-> "places_nearby", location |-> origin, radius |-> radius_meters,
   type |-> place_type]
RoutingCall(origin, dest, mode) ==
  [api |-> "distance_matrix", origins |-> <<origin>>, destinations |-> <<dest>>,
   mode |-> mode]

\* (nearest.lng, nearest.lat)
CandidateDest_Swapped(c) == <<c.lng, c.lat>>

\* (nearest.lat, nearest.lng): the destination nearest_store.main passes.
CandidateDest(c) == <<c.lat, c.lng>>
\* (float(loc["lat"]), float(loc["lng"])): the destination make_map.main passes.
PlaceDest(p) ==
  LET loc == Get(Get(p, "geometry", EmptyDict), "location", EmptyDict)
  IN  <<loc["lat"], loc["lng"]>>

(***************************************************************************)
(* One run of nearest_store.main or of make_map.main                       *)
(***************************************************************************)
VARIABLES
  prog,        \* the program run: "nearest_store" or "make_map"
  pc,          \* position in main: start, fetch, select, metrics, report, done, failed
  key,         \* value of GOOGLE_MAPS_API_KEY
  places,      \* the list fetch_places returned, as it is now
  places0,     \* the list fetch_places returned, as it was returned
  candidates,  \* nearest_store: result of to_candidates
  sel,         \* identity of the selected object: index into candidates
               \* (nearest_store) or into places (make_map); 0 before
  nearest,     \* the selected PlaceCandidate / place dict
  locals,      \* make_map: name, addr, dest, straight_line
  calls,       \* requests sent to the providers, in order
  dm,          \* the response of the routing provider ({} before the call)
  metrics,     \* (dist_text, time_text)
  out,         \* what the run printed / saved
  err,         \* the exception that ended the run, or None
  hv           \* a call of haversine_miles on its own: a, b, and once it has
               \* returned, the results for (a, b) and (b, a)

vars == <<prog, pc, key, places, places0, candidates, sel, nearest, locals,
          calls, dm, metrics, out, err, hv>>

Programs == {"nearest_store", "make_map"}

Init ==
  /\ prog \in Programs
  /\ pc = "start"
  /\ key = None
  /\ places = <<>>
  /\ places0 = <<>>
  /\ candidates = <<>>
  /\ sel = 0
  /\ nearest = EmptyDict
  /\ locals = EmptyDict
  /\ calls = <<>>
  /\ dm = EmptyDict
  /\ metrics = <<None, None>>
  /\ out = <<>>
  /\ err = None
  /\ hv = [a |-> ORIGIN, b |-> ORIGIN, called |-> FALSE, ab |-> 0, ba |-> 0]

Fail(e) == pc' = "failed" /\ err' = e

\* nearest_store.main, line 101: the key is read; the client is built.
NSStart ==
  /\ prog = "nearest_store" /\ pc = "start"
  /\ \E k \in Keys :
       /\ key' = k
       /\ IF get_api_key(k).raised
          THEN Fail("RuntimeError: Missing GOOGLE_MAPS_API_KEY")
          ELSE pc' = "fetch" /\ err' = err
  /\ UNCHANGED <<prog, places, places0, candidates, sel, nearest, locals,
                 calls, dm, metrics, out, hv>>

\* nearest_store.main, line 103: fetch_places.
NSFetch ==
  /\ prog = "nearest_store" /\ pc = "fetch"
  /\ \E ps \in PlaceLists :
       /\ places' = ps
       /\ places0' = ps
  /\ calls' = Append(calls, PlacesCall(ORIGIN, SEARCH_RADIUS_METERS, PLACE_TYPE))
  /\ pc' = "select"
  /\ UNCHANGED <<prog, key, candidates, sel, nearest, locals, dm, metrics,
                 out, err, hv>>

\* nearest_store.main, lines 104-113: to_candidates, the empty check, min,
\* and the first three prints.
NSSelect ==
  /\ prog = "nearest_store" /\ pc = "select"
  /\ candidates' = to_candidates(ORIGIN, places)
  /\ IF candidates' = <<>>
     THEN /\ Fail("RuntimeError: No grocery stores found")
          /\ UNCHANGED <<sel, nearest, out>>
     ELSE /\ sel' = MinIndex(candidates')
          /\ nearest' = candidates'[sel']
          /\ out' = out \o <<[line |-> "Nearest (straight-line):"],
                             [name |-> nearest'.name, address |-> nearest'.address],
                             [miles |-> nearest'.straight_line_miles]>>
          /\ pc' = "metrics" /\ err' = err
  /\ UNCHANGED <<prog, key, places, places0, locals, calls, dm, metrics, hv>>

\* nearest_store.main, line 115: driving_metrics.
NSMetrics ==
  /\ prog = "nearest_store" /\ pc = "metrics"
  /\ calls' = Append(calls, RoutingCall(ORIGIN, CandidateDest(nearest), TRAVEL_MODE))
  /\ \E resp \in DmResponses :
       LET r == driving_metrics(resp)
       IN  /\ dm' = resp
           /\ IF r.raised
              THEN Fail("KeyError") /\ metrics' = metrics
              ELSE metrics' = r.value /\ pc' = "report" /\ err' = err
  /\ UNCHANGED <<prog, key, places, places0, candidates, sel, nearest,
                 locals, out, hv>>

\* nearest_store.main, lines 116-121: the travel section of the report.
NSReport ==
  /\ prog = "nearest_store" /\ pc = "report"
  /\ out' = out \o <<[line |-> "Travel (driving):"]>>
                \o (IF Truthy(metrics[1]) /\ Truthy(metrics[2])
                    THEN <<[distance |-> metrics[1]], [time |-> metrics[2]]>>
                    ELSE <<[line |-> "- (Driving metrics unavailable)"]>>)
  /\ pc' = "done"
  /\ UNCHANGED <<prog, key, places, places0, candidates, sel, nearest,
                 locals, calls, dm, metrics, err, hv>>

\* make_map.main, line 93: the key is read; the client is built.
MMStart ==
  /\ prog = "make_map" /\ pc = "start"
  /\ \E k \in Keys :
       /\ key' = k
       /\ IF get_api_key(k).raised
          THEN Fail("RuntimeError: Missing GOOGLE_MAPS_API_KEY")
          ELSE pc' = "fetch" /\ err' = err
  /\ UNCHANGED <<prog, places, places0, candidates, sel, nearest, locals,
                 calls, dm, metrics, out, hv>>

\* make_map.main, lines 95-97: fetch_places and the empty check.
MMFetch ==
  /\ prog = "make_map" /\ pc = "fetch"
  /\ \E ps \in PlaceLists :
       /\ places' = ps
       /\ places0' = ps
       /\ IF ps = <<>>
          THEN Fail("RuntimeError: No grocery stores found")
          ELSE pc' = "select" /\ err' = err
  /\ calls' = Append(calls, PlacesCall(ORIGIN, SEARCH_RADIUS_METERS, PLACE_TYPE))
  /\ UNCHANGED <<prog, key, candidates, sel, nearest, locals, dm, metrics,
                 out, hv>>

\* make_map.main, lines 99-104: pick_nearest_place and the locals read from
\* the dict it returns.
MMPick ==
  /\ prog = "make_map" /\ pc = "select"
  /\ LET r == pick_nearest_place(places)
     IN  IF r.raised
         THEN /\ Fail("RuntimeError: No valid places found (missing coordinates).")
              /\ UNCHANGED <<places, sel, nearest, locals>>
         ELSE /\ places' = r.places
              /\ sel' = r.best
              /\ nearest' = r.places[r.best]
              /\ locals' = [name |-> Get(nearest', "name", "Nearest grocery store"),
                            addr |-> Get(nearest', "vicinity", "Unknown address"),
                            dest |-> PlaceDest(nearest'),
                            straight_line |-> nearest'["_straight_line_miles"]]
              /\ pc' = "metrics" /\ err' = err
  /\ UNCHANGED <<prog, key, places0, candidates, calls, dm, metrics, out, hv>>

\* make_map.main, line 106: driving_metrics.
MMMetrics ==
  /\ prog = "make_map" /\ pc = "metrics"
  /\ calls' = Append(calls, RoutingCall(ORIGIN, locals.dest, TRAVEL_MODE))
  /\ \E resp \in DmResponses :
       LET r == driving_metrics(resp)
       IN  /\ dm' = resp
           /\ IF r.raised
              THEN Fail("KeyError") /\ metrics' = metrics
              ELSE metrics' = r.value /\ pc' = "report" /\ err' = err
  /\ UNCHANGED <<prog, key, places, places0, candidates, sel, nearest,
                 locals, out, hv>>

\* make_map.main, lines 109-131: the map with the popup of the store marker.
MMRender ==
  /\ prog = "make_map" /\ pc = "report"
  /\ out' = out \o <<[marker |-> locals.dest,
                      popup |-> [name |-> locals.name, addr |-> locals.addr,
                                 straight_line |-> locals.straight_line,
                                 driving |-> IF Truthy(metrics[1]) /\ Truthy(metrics[2])
                                             THEN <<metrics[1], metrics[2]>>
                                             ELSE <<>>],
                      saved |-> OUTPUT_HTML]>>
  /\ pc' = "done"
  /\ UNCHANGED <<prog, key, places, places0, candidates, sel, nearest,
                 locals, calls, dm, metrics, err, hv>>

Next ==
  \/ NSStart \/ NSFetch \/ NSSelect \/ NSMetrics \/ NSReport
  \/ MMStart \/ MMFetch \/ MMPick \/ MMMetrics \/ MMRender

Spec == Init /\ [][Next]_vars

(***************************************************************************)
(* haversine_miles called on its own, on points the provider's grid does   *)
(* not hold (southern latitudes, eastern longitudes, antipodes)            *)
(***************************************************************************)
HavLats == {-40, 0, 40, 50}
HavLons == {-80, 0, 80, 180}
HavPoints == HavLats \X HavLons

HavInit ==
  /\ prog = "nearest_store"
  /\ pc = "start"
  /\ key = None
  /\ places = <<>>
  /\ places0 = <<>>
  /\ candidates = <<>>
  /\ sel = 0
  /\ nearest = EmptyDict
  /\ locals = EmptyDict
  /\ calls = <<>>
  /\ dm = EmptyDict
  /\ metrics = <<None, None>>
  /\ out = <<>>
  /\ err = None
  /\ \E a \in HavPoints, b \in HavPoints :
       hv = [a |-> a, b |-> b, called |-> FALSE, ab |-> 0, ba |-> 0]

HavCall ==
  /\ ~hv.called
  /\ hv' = [hv EXCEPT !.called = TRUE,
                      !.ab = haversine_miles(hv.a, hv.b),
                      !.ba = haversine_miles(hv.b, hv.a)]
  /\ UNCHANGED <<prog, pc, key, places, places0, candidates, sel, nearest,
                 locals, calls, dm, metrics, out, err>>

HavNext == HavCall

HavSpec == HavInit /\ [][HavNext]_vars

(***************************************************************************)
(* Vocabulary of the properties                                            *)
(***************************************************************************)
\* The record has both a latitude and a longitude.
HasCoords(p) ==
  /\ "geometry" \in DOMAIN p
  /\ "location" \in DOMAIN p["geometry"]
  /\ "lat" \in DOMAIN p["geometry"]["location"]
  /\ "lng" \in DOMAIN p["geometry"]["location"]
  /\ p["geometry"]["location"]["lat"] # NoneNum
  /\ p["geometry"]["location"]["lng"] # NoneNum

CoordsOf(p) == <<p["geometry"]["location"]["lat"], p["geometry"]["location"]["lng"]>>

\* Straight-line distance of a record with coordinates from the origin.
DistOf(p) == haversine_miles(ORIGIN, CoordsOf(p))

\* Positions of the records of ps that have both coordinates.
ValidSet(ps) == {i \in 1..Len(ps) : HasCoords(ps[i])}

\* Position in ps of its j-th record with both coordinates.
NthValid(ps, j) ==
  CHOOSE i \in ValidSet(ps) : Cardinality({k \in ValidSet(ps) : k <= i}) = j

\* The selection step of main has been executed.
PastSelect == pc \notin {"start", "fetch", "select"}

\* A nearest place has been selected.
Selected == sel # 0

\* Position in the fetched list of the record selected.
SelPos == IF prog = "nearest_store" THEN NthValid(places0, sel) ELSE sel

\* Coordinates and straight-line distance the program holds for its selection.
SelCoords == IF prog = "nearest_store" THEN CandidateDest(nearest) ELSE PlaceDest(nearest)
SelMiles ==
  IF prog = "nearest_store" THEN nearest.straight_line_miles
  ELSE nearest["_straight_line_miles"]

EmptyErrors ==
  {"RuntimeError: No grocery stores found",
   "RuntimeError: No valid places found (missing coordinates)."}

\* The run failed with the empty-result error.
FailedEmpty == pc = "failed" /\ err \in EmptyErrors

\* The routing provider has been queried.
RoutingCalled == \E i \in 1..Len(calls) : calls[i].api = "distance_matrix"

(***************************************************************************)
(* Properties                                                              *)
(***************************************************************************)

\* C1: whenever the fetched list holds a record with both coordinates, the
\* selection step selects a record of the list that has both coordinates,
\* the program holds that record's coordinates and distance, and no record
\* of the list with both coordinates is nearer to the origin.
C1_NearestIsMinimum ==
  (PastSelect /\ ValidSet(places0) # {}) =>
    /\ Selected
    /\ SelPos \in ValidSet(places0)
    /\ SelCoords = CoordsOf(places0[SelPos])
    /\ SelMiles = DistOf(places0[SelPos])
    /\ \A i \in ValidSet(places0) : SelMiles <= DistOf(places0[i])

\* A run that selected the third record: the first is farther, the second
\* has no coordinates.
C1_Witness ==
  /\ prog = "nearest_store" /\ pc = "metrics"
  /\ Len(places0) = 3
  /\ ValidSet(places0) = {1, 3}
  /\ SelPos = 3
  /\ DistOf(places0[1]) > DistOf(places0[3])

\* C2: among the records with both coordinates whose distance equals the
\* distance of the selected one, the selected one comes first in the list.
C2_FirstOfTies ==
  (PastSelect /\ Selected) =>
    \A i \in ValidSet(places0) :
      DistOf(places0[i]) = DistOf(places0[SelPos]) => SelPos <= i

\* A run where two different records tie for the minimum and the first one
\* was selected.
C2_Witness ==
  /\ prog = "make_map" /\ pc = "metrics"
  /\ Len(places0) = 3
  /\ ValidSet(places0) = {1, 2, 3}
  /\ CoordsOf(places0[2]) # CoordsOf(places0[3])
  /\ DistOf(places0[2]) = DistOf(places0[3])
  /\ DistOf(places0[1]) > DistOf(places0[2])
  /\ SelPos = 2

\* C3: once to_candidates has run, the candidates are exactly the records
\* with both coordinates, one candidate each, in the order of the list, with
\* the record's name, address (or the defaults), coordinates and distance;
\* records without a coordinate add nothing and end nothing.
C3_CandidatesAreValidRecords ==
  (prog = "nearest_store" /\ PastSelect) =>
    /\ Len(candidates) = Cardinality(ValidSet(places0))
    /\ \A j \in 1..Len(candidates) :
         LET p == places0[NthValid(places0, j)]
         IN  /\ CandidateDest(candidates[j]) = CoordsOf(p)
             /\ candidates[j].straight_line_miles = DistOf(p)
             /\ candidates[j].name =
                  (IF "name" \in DOMAIN p THEN p["name"] ELSE "Unknown")
             /\ candidates[j].address =
                  (IF "vicinity" \in DOMAIN p THEN p["vicinity"] ELSE "Unknown address")
    /\ (ValidSet(places0) # {} => ~FailedEmpty)

\* A run whose list held a record without coordinates between two records
\* with a coordinate equal to 0: two candidates, in order.
C3_Witness ==
  /\ prog = "nearest_store" /\ pc = "metrics"
  /\ Len(places0) = 3
  /\ ValidSet(places0) = {1, 3}
  /\ CoordsOf(places0[1]) = <<40, 0>>
  /\ CoordsOf(places0[3]) = <<0, -80>>
  /\ Len(candidates) = 2
  /\ candidates[1].lng = 0
  /\ candidates[2].lat = 0

\* C4: after the selection step the run has failed with the empty-result
\* error exactly if the fetched list holds no record with both coordinates
\* (an empty list included); such a run selected and reported nothing.
C4_EmptyResultError ==
  (PastSelect /\ calls # <<>>) =>
    /\ (ValidSet(places0) = {}) <=> FailedEmpty
    /\ FailedEmpty => (sel = 0 /\ nearest = EmptyDict /\ out = <<>> /\ ~RoutingCalled)

\* A run that failed on a non-empty list none of whose records has both
\* coordinates.
C4_Witness ==
  /\ prog = "make_map"
  /\ FailedEmpty
  /\ Len(places0) = 2
  /\ ValidSet(places0) = {}

StatusOf(resp) ==
  IF "rows" \notin DOMAIN resp THEN "absent"
  ELSE IF "elements" \notin DOMAIN resp["rows"][1] THEN "absent"
  ELSE IF "status" \notin DOMAIN resp["rows"][1]["elements"][1] THEN "absent"
  ELSE resp["rows"][1]["elements"][1]["status"]

\* The finished run reported the selected store with its straight-line
\* distance and no driving distance or time.
ReportedWithoutDriving ==
  IF prog = "nearest_store"
  THEN /\ \E i \in 1..Len(out) :
            out[i] = [name |-> nearest.name, address |-> nearest.address]
       /\ \E i \in 1..Len(out) : out[i] = [miles |-> SelMiles]
       /\ \A i \in 1..Len(out) :
            "distance" \notin DOMAIN out[i] /\ "time" \notin DOMAIN out[i]
  ELSE /\ Len(out) = 1
       /\ out[1].marker = SelCoords
       /\ out[1].popup.straight_line = SelMiles
       /\ out[1].popup.driving = <<>>

\* C6: once the routing provider has answered, dist_text and time_text are
\* both absent or both present; if the answer does not carry status OK the
\* run has not failed, both are absent, and the finished run reports the
\* selected store and its straight-line distance without driving metrics.
C6_MetricsUnavailable ==
  RoutingCalled =>
    /\ (metrics[1] = None) <=> (metrics[2] = None)
    /\ StatusOf(dm) # "OK" =>
         /\ pc \in {"report", "done"}
         /\ err = None
         /\ metrics = <<None, None>>
         /\ pc = "done" => ReportedWithoutDriving

\* A finished run whose routing answer had status ZERO_RESULTS.
C6_Witness ==
  /\ prog = "nearest_store" /\ pc = "done"
  /\ StatusOf(dm) = "ZERO_RESULTS"
  /\ metrics = <<None, None>>

\* C7: a run whose key is unset or empty has sent no request to either
\* provider, and once past the start it has failed with the configuration
\* error.
C7_NoKeyNoNetwork ==
  (key = None \/ key = "") =>
    /\ calls = <<>>
    /\ pc \in {"start", "failed"}
    /\ pc = "failed" => err = "RuntimeError: Missing GOOGLE_MAPS_API_KEY"

\* A run that failed on an empty key.
C7_Witness ==
  /\ prog = "make_map" /\ pc = "failed"
  /\ key = ""
  /\ calls = <<>>

\* C8: haversine_miles(a, b) = haversine_miles(b, a).
C8_Symmetric == hv.called => hv.ab = hv.ba

\* A call on two points that differ in latitude and in longitude, with
\* different cosines of latitude.
C8_Witness ==
  /\ hv.called
  /\ hv.a = <<50, -80>> /\ hv.b = <<-40, 80>>
  /\ hv.ab > 0

\* The requests of a run are the places lookup, then at most one routing
\* query.
CallsInOrder ==
  /\ Len(calls) <= 2
  /\ Len(calls) >= 1 => calls[1] = PlacesCall(ORIGIN, SEARCH_RADIUS_METERS, PLACE_TYPE)
  /\ Len(calls) = 2 => calls[2].api = "distance_matrix"

\* The routing query comes after the selection, names the origin and the
\* coordinates of the selected record, and is not sent by a run that fails
\* with the empty-result error.
RoutingForSelected ==
  /\ RoutingCalled =>
       /\ PastSelect /\ Selected
       /\ calls[2].origins = <<ORIGIN>>
       /\ calls[2].destinations = <<CoordsOf(places0[SelPos])>>
       /\ calls[2].mode = TRAVEL_MODE
  /\ FailedEmpty => ~RoutingCalled

\* C9 as claimed: the steps come in the order fetch, select, query routing,
\* present: the places lookup comes first, at most one routing query follows
\* it, after the selection and for the selected record, never in a run that
\* fails with the empty-result error, and nothing is presented before the
\* routing provider has been queried.
C9_PresentAfterRouting ==
  /\ CallsInOrder
  /\ RoutingForSelected
  /\ out # <<>> => RoutingCalled

\* C9 amended: a run sends the places lookup first and at most one routing
\* query after it; the routing query comes after the selection and names the
\* origin and the coordinates of the selected record; a run that fails with
\* the empty-result error sends none; make_map presents nothing before the
\* routing query, and nearest_store presents before it only the store's
\* name, address and straight-line distance, after the selection; the travel
\* section follows the routing query.
C9_RoutingAfterSelection ==
  /\ CallsInOrder
  /\ RoutingForSelected
  /\ out # <<>> => Selected
  /\ (prog = "make_map" /\ out # <<>>) => (RoutingCalled /\ pc = "done")
  /\ (prog = "nearest_store" /\ Len(out) > 3) => (RoutingCalled /\ pc = "done")

\* A finished nearest_store run whose routing query named the second
\* record's coordinates and whose travel section followed it.
C9_Witness ==
  /\ prog = "nearest_store" /\ pc = "done"
  /\ Len(calls) = 2
  /\ SelPos = 2
  /\ calls[2].destinations = <<<<0, -80>>>>
  /\ Len(out) > 3

\* C10: on the list the run fetched, the other program's selection agrees
\* with the run's own: both fail with the empty-result error, or both select
\* the record at the same position, with the same coordinates and distance.
C10_SelectionsAgree ==
  PastSelect =>
    /\ (prog = "nearest_store" /\ calls # <<>>) =>
         LET r == pick_nearest_place(places0)
         IN  /\ FailedEmpty <=> r.raised
             /\ Selected =>
                  /\ r.best = SelPos
                  /\ PlaceDest(r.places[r.best]) = CandidateDest(nearest)
                  /\ r.places[r.best]["_straight_line_miles"] = nearest.straight_line_miles
    /\ (prog = "make_map" /\ calls # <<>>) =>
         LET c == to_candidates(ORIGIN, places0)
         IN  /\ FailedEmpty <=> (c = <<>>)
             /\ Selected =>
                  /\ NthValid(places0, MinIndex(c)) = sel
                  /\ CandidateDest(c[MinIndex(c)]) = PlaceDest(nearest)
                  /\ c[MinIndex(c)].straight_line_miles = nearest["_straight_line_miles"]

\* A nearest_store run on a list where a record without coordinates comes
\* first and two records tie for the minimum.
C10_Witness ==
  /\ prog = "nearest_store" /\ pc = "report"
  /\ Len(places0) = 3
  /\ ValidSet(places0) = {2, 3}
  /\ DistOf(places0[2]) = DistOf(places0[3])
  /\ places0[2] # places0[3]
  /\ SelPos = 2

====
